---- MODULE Spec2Model ----
(***************************************************************************)
(* Access-gated RAG query pipeline of the board game assistant backend:   *)
(* the feature access resolver, the usage ledger, the session manager,    *)
(* the knowledge locator, the query orchestrator and the chat request.    *)
(***************************************************************************)
EXTENDS Integers, Sequences, FiniteSets, Bags, TLC

VARIABLES
    environment,   \* settings.environment of the running process
    flags,         \* rows of the feature_flags table
    access,        \* the FeatureAccess returned by the call in progress, or NoCall
    query,         \* the locals of the query_gemini call in progress
    now,           \* the UTC clock, in ticks
    events,        \* rows of the usage_events table, a bag
    ledger,        \* the usage-ledger call in progress, or NoCall
    sessions,      \* rows of the chat_sessions table, the id being the index
    session_call,  \* the last call of the session manager, or NoCall
    documents,     \* rows of the game_documents table
    locator,       \* the store lookup in progress, or NoCall
    messages,      \* rows of the chat_messages table, in insertion order
    chat           \* the chat request in progress, or NoChat

vars ==
    <<environment, flags, access, query, now, events, ledger, sessions, session_call,
      documents, locator, messages, chat>>

\* what the actions of one component leave alone
outsideAccess ==
    <<query, now, events, ledger, sessions, session_call, documents, locator,
      messages, chat>>

outsideQuery ==
    <<environment, flags, access, now, events, ledger, sessions, session_call,
      documents, locator, messages, chat>>

outsideUsage ==
    <<flags, access, query, sessions, session_call, documents, locator, messages, chat>>

outsideSession ==
    <<environment, flags, access, query, events, ledger, documents, locator,
      messages, chat>>

outsideClock ==
    <<environment, flags, access, query, events, ledger, sessions, session_call,
      documents, locator, messages, chat>>

outsideLocator ==
    <<environment, flags, access, query, now, events, ledger, sessions, session_call,
      messages, chat>>

\* what no step of a chat request changes
outsideChat == <<environment, flags, access, now, ledger, session_call, documents, locator>>

(***************************************************************************)
(* Values                                                                  *)
(***************************************************************************)
Null == "null"

NoCall == [called |-> FALSE]

\* no chat request: the components are called directly
NoChat == [pc |-> "none"]

Environments == {"dev", "prod"}

\* the user calling the resolver, and a second user owning rows of the store
Callers == {"u1"}

CallerRoles == {"admin", "developer", "basic"}

FlagRoles == {Null, "basic", "premium"}

\* metadata of a flag: None, or a map holding daily_limit
NoneMeta == [isNone |-> TRUE, keys |-> {}, daily_limit |-> 0]

LimitMeta(n) == [isNone |-> FALSE, keys |-> {"daily_limit"}, daily_limit |-> n]

Flag(st, sid, fk, role, env, enabled, meta) ==
    [scope_type |-> st, scope_id |-> sid, feature_key |-> fk, role |-> role,
     environment |-> env, enabled |-> enabled, metadata |-> meta]

\* (scope_type, scope_id) pairs of the rows the resolver's chain can reach
CoreScopes == {<<"global", Null>>, <<"game", "g1">>, <<"section", "s1">>, <<"user", "u1">>}

\* the rows an administrator may put in the store
FlagUniverse ==
    {Flag(s[1], s[2], "chat", r, "prod", e, NoneMeta) :
        s \in CoreScopes, r \in FlagRoles, e \in BOOLEAN}
    \cup {Flag("user", "u1", "chat", Null, "dev", FALSE, NoneMeta),
          Flag("global", Null, "chat", Null, "dev", TRUE, NoneMeta),
          Flag("game", "g1", "chat", "basic", "dev", TRUE, NoneMeta),
          Flag("user", "u2", "chat", Null, "prod", FALSE, NoneMeta),
          Flag("game", "g2", "chat", Null, "prod", TRUE, NoneMeta),
          Flag("global", Null, "faq", Null, "prod", TRUE, NoneMeta),
          Flag("game", "g1", "chat", Null, "prod", TRUE, LimitMeta(2)),
          Flag("user", "u1", "chat", Null, "prod", FALSE, LimitMeta(2))}

\* bounds
MaxFlags == 2

MaxFailed == 1

(***************************************************************************)
(* Flag store adapter and feature access resolver (feature_flags.py)       *)
(***************************************************************************)
is_development(env) == env = "dev"

\* the rows get_feature_flags selects; a filter is applied only when its
\* argument is truthy
get_feature_flags(store, env, feature_key, scope_type, scope_id, role) ==
    {f \in store :
        /\ f.feature_key = feature_key
        /\ f.environment = env
        /\ (scope_type # Null => f.scope_type = scope_type)
        /\ (scope_id # Null => f.scope_id = scope_id)
        /\ (role # Null => f.role = role)}

\* mutant: the global candidates are put before the user candidates
FlagsToCheckGlobalFirst(user_id, user_role, scope_type, scope_id) ==
    <<<<"global", Null, user_role>>, <<"global", Null, Null>>>>
    \o (IF scope_type \in {"game", "section"} /\ scope_id # Null
        THEN <<<<scope_type, scope_id, user_role>>, <<scope_type, scope_id, Null>>>>
        ELSE <<>>)
    \o <<<<"user", user_id, user_role>>, <<"user", user_id, Null>>>>

\* the ordered candidate list (scope_type, scope_id, role)
FlagsToCheck(user_id, user_role, scope_type, scope_id) ==
    <<<<"user", user_id, user_role>>, <<"user", user_id, Null>>>>
    \o (IF scope_type \in {"game", "section"} /\ scope_id # Null
        THEN <<<<scope_type, scope_id, user_role>>, <<scope_type, scope_id, Null>>>>
        ELSE <<>>)
    \o <<<<"global", Null, user_role>>, <<"global", Null, Null>>>>

FeatureAccess(has_access, feature_key, reason, metadata) ==
    [has_access |-> has_access, feature_key |-> feature_key,
     reason |-> reason, metadata |-> metadata]

\* the result a matching flag gives at candidate cand
FlagDecision(flag, cand, feature_key) ==
    FeatureAccess(flag.enabled, feature_key,
                  (IF flag.enabled THEN "Enabled by " ELSE "Disabled by ")
                      \o cand[1] \o " flag"
                      \o (IF cand[3] # Null THEN " for role " \o cand[3] ELSE ""),
                  flag.metadata)

\* mutant: no matching flag grants access
NoFlagDecisionGrant(feature_key, scope_type) ==
    FeatureAccess(TRUE, feature_key,
                  "No feature flag found for " \o feature_key \o " in "
                      \o scope_type \o " scope",
                  NoneMeta)

\* the default when no candidate yields a flag
NoFlagDecision(feature_key, scope_type) ==
    FeatureAccess(FALSE, feature_key,
                  "No feature flag found for " \o feature_key \o " in "
                      \o scope_type \o " scope",
                  NoneMeta)

\* the results consumed in order from candidate i on; a failed lookup (an
\* exception kept by gather, or the empty list get_feature_flags returns on a
\* query error) is skipped; flags[0] is any row of the unordered selection
RECURSIVE EvaluateFrom(_, _, _, _, _, _, _)
EvaluateFrom(store, env, feature_key, scope_type, cands, failed, i) ==
    IF i > Len(cands)
    THEN {NoFlagDecision(feature_key, scope_type)}
    ELSE LET rows == get_feature_flags(store, env, feature_key,
                                       cands[i][1], cands[i][2], cands[i][3])
         IN  IF i \in failed \/ rows = {}
             THEN EvaluateFrom(store, env, feature_key, scope_type, cands, failed, i + 1)
             ELSE {FlagDecision(f, cands[i], feature_key) : f \in rows}

\* mutant: the admin bypass is applied in the development environment only
BypassDevOnly(env, user_role) ==
    IF user_role \in {"admin", "developer"} /\ is_development(env)
    THEN {user_role \o " role has full access in dev environment"}
    ELSE {}

\* the bypass reason of the admin/developer early returns, if one applies
Bypass(env, user_role) ==
    IF user_role \in {"admin", "developer"} /\ is_development(env)
    THEN {user_role \o " role has full access in dev environment"}
    ELSE IF user_role = "admin"
         THEN {"admin role has full access"}
         ELSE {}

\* every FeatureAccess check_feature_access may return
check_feature_access(store, env, user_id, user_role, feature_key, scope_type, scope_id, failed) ==
    IF Bypass(env, user_role) # {}
    THEN {FeatureAccess(TRUE, feature_key, r, NoneMeta) : r \in Bypass(env, user_role)}
    ELSE EvaluateFrom(store, env, feature_key, scope_type,
                      FlagsToCheck(user_id, user_role, scope_type, scope_id), failed, 1)

(***************************************************************************)
(* Actions of the resolver                                                 *)
(***************************************************************************)
\* the scopes check_feature_access is called with
CallScopes == {<<"global", Null>>, <<"game", "g1">>, <<"section", "s1">>}

\* the feature keys check_feature_access is called with
FeatureKeys == {"chat", "faq"}

\* the columns that tell the flags of one feature and environment apart
FlagKey(f) == <<f.feature_key, f.environment, f.scope_type, f.scope_id, f.role>>

\* an administrator adds a row to feature_flags
AddFlag ==
    /\ access = NoCall
    /\ Cardinality(flags) < MaxFlags
    /\ \E f \in FlagUniverse :
         /\ \A g \in flags : FlagKey(g) # FlagKey(f)
         /\ flags' = flags \cup {f}
    /\ UNCHANGED <<environment, access>>
    /\ UNCHANGED outsideAccess

\* an administrator removes a row from feature_flags
RemoveFlag ==
    /\ access = NoCall
    /\ \E f \in flags : flags' = flags \ {f}
    /\ UNCHANGED <<environment, access>>
    /\ UNCHANGED outsideAccess

\* one call of check_feature_access; failed holds the candidates whose
\* lookup the store fails
CheckFeatureAccess ==
    /\ access = NoCall
    /\ \E user_id \in Callers, user_role \in CallerRoles, fk \in FeatureKeys, s \in CallScopes :
         \E failed \in SUBSET (1..Len(FlagsToCheck(user_id, user_role, s[1], s[2]))) :
           /\ Cardinality(failed) <= MaxFailed
           /\ \E r \in check_feature_access(flags, environment, user_id, user_role,
                                             fk, s[1], s[2], failed) :
                access' = [called |-> TRUE, user_id |-> user_id, user_role |-> user_role,
                           feature_key |-> fk, scope_type |-> s[1], scope_id |-> s[2],
                           failed |-> failed, result |-> r]
    /\ UNCHANGED <<environment, flags>>
    /\ UNCHANGED outsideAccess

\* the caller takes the FeatureAccess
ReturnAccess ==
    /\ access # NoCall
    /\ access' = NoCall
    /\ UNCHANGED <<environment, flags>>
    /\ UNCHANGED outsideAccess

InitAccess ==
    /\ environment \in Environments
    /\ flags = {}
    /\ access = NoCall
    /\ query = [pc |-> "idle"]
    /\ now = 0
    /\ events = EmptyBag
    /\ ledger = NoCall
    /\ sessions = <<>>
    /\ session_call = NoCall
    /\ documents = {}
    /\ locator = NoCall
    /\ messages = <<>>
    /\ chat = NoChat

NextAccess == AddFlag \/ RemoveFlag \/ CheckFeatureAccess \/ ReturnAccess


(***************************************************************************)
(* Query orchestrator (gemini_provider.py, query_gemini)                   *)
(***************************************************************************)
\* bound: the length of the texts the model calls return
MaxTextLen == 2

Sentinel == "I dont have information about your request"

Whitespace == {" "}

Alphabet == {" ", "a"}

RECURSIVE TextsOfLen(_)
TextsOfLen(n) ==
    IF n = 0 THEN {""} ELSE {t \o c : t \in TextsOfLen(n - 1), c \in Alphabet}

\* the texts a model call may return
Texts == UNION {TextsOfLen(n) : n \in 0..MaxTextLen}

\* str.strip()
RECURSIVE Strip(_)
Strip(t) ==
    IF t = "" THEN ""
    ELSE IF SubSeq(t, 1, 1) \in Whitespace THEN Strip(SubSeq(t, 2, Len(t)))
    ELSE IF SubSeq(t, Len(t), Len(t)) \in Whitespace THEN Strip(SubSeq(t, 1, Len(t) - 1))
    ELSE t

\* mutant: the stripped text is returned as it is, empty or not
StripOnly(t) == Strip(t)

\* text.strip() or the sentinel
StripOrSentinel(t) == IF Strip(t) = "" THEN Sentinel ELSE Strip(t)

\* a token count that is None
NoTokens == -1

\* usage_metadata of a response: None, or the three counters
NoUsage == [present |-> FALSE, total |-> 0, prompt |-> 0, completion |-> 0]

Usages == {NoUsage, [present |-> TRUE, total |-> 3, prompt |-> 2, completion |-> 1]}

CitationsFs ==
    {<<>>, <<[document_title |-> "rulebook", excerpt |-> "rule", source |-> "file_search"]>>}

CitationsGs ==
    {<<>>, <<[document_title |-> "forum", excerpt |-> "https://bgg", source |-> "google_search"]>>}

\* what a provider call raises
Exceptions == {"timeout"}

ModelName == "gemini-3-flash-preview"

NoErrors == <<>>

IdleQuery == [pc |-> "idle"]

\* the locals of query_gemini before stage 1
StartedQuery ==
    [pc |-> "file_search", calls |-> <<>>,
     answer_text_fs |-> "", citations_fs |-> <<>>, usage_metadata_fs |-> NoUsage,
     file_search_error |-> Null,
     answer_text_gs |-> "", citations_gs |-> <<>>, usage_metadata_gs |-> NoUsage,
     google_search_error |-> Null,
     synthesis_error |-> Null, synthesis_text |-> "", result |-> Null, raised |-> Null]

\* total_token_count etc. of one stage's usage metadata, None without metadata
StageTokens(usage) ==
    IF usage.present
    THEN [total |-> usage.total, prompt |-> usage.prompt, completion |-> usage.completion]
    ELSE [total |-> NoTokens, prompt |-> NoTokens, completion |-> NoTokens]

\* mutant: the failed stage's error is not carried in the result
SingleStageResultNoErrors(text, citations, usage, key, error) ==
    [answer |-> StripOrSentinel(text), citations |-> citations,
     model_info |-> [provider |-> "gemini", model_name |-> ModelName,
                     total_tokens |-> StageTokens(usage).total,
                     prompt_tokens |-> StageTokens(usage).prompt,
                     completion_tokens |-> StageTokens(usage).completion,
                     errors |-> NoErrors]]

\* the result returned when exactly one stage failed: the other stage's
\* answer, citations and usage, and the failed stage's error under key
SingleStageResult(text, citations, usage, key, error) ==
    [answer |-> StripOrSentinel(text), citations |-> citations,
     model_info |-> [provider |-> "gemini", model_name |-> ModelName,
                     total_tokens |-> StageTokens(usage).total,
                     prompt_tokens |-> StageTokens(usage).prompt,
                     completion_tokens |-> StageTokens(usage).completion,
                     errors |-> (key :> error)]]

\* a counter summed over the calls that carry usage metadata; None when 0
SumOrNone(ns) ==
    LET total == ns[1] + ns[2] + ns[3] IN IF total > 0 THEN total ELSE NoTokens

\* the errors dictionary built after synthesis
ErrorsOf(q) ==
    IF q.synthesis_error # Null THEN ("synthesis" :> q.synthesis_error) ELSE NoErrors

\* the answer kept when the synthesis call raised
SynthesisFallback(q) ==
    IF q.answer_text_fs # "" THEN q.answer_text_fs
    ELSE IF q.answer_text_gs # "" THEN q.answer_text_gs
    ELSE Sentinel

\* the result returned after the synthesis stage
CombinedResult(q, final_answer, usage_synth) ==
    [answer |-> StripOrSentinel(final_answer),
     citations |-> q.citations_fs \o q.citations_gs,
     model_info |->
        [provider |-> "gemini", model_name |-> ModelName,
         total_tokens |-> SumOrNone(<<q.usage_metadata_fs.total,
                                      q.usage_metadata_gs.total, usage_synth.total>>),
         prompt_tokens |-> SumOrNone(<<q.usage_metadata_fs.prompt,
                                       q.usage_metadata_gs.prompt, usage_synth.prompt>>),
         completion_tokens |-> SumOrNone(<<q.usage_metadata_fs.completion,
                                           q.usage_metadata_gs.completion,
                                           usage_synth.completion>>),
         errors |-> ErrorsOf(q)]]

\* what the provider calls may return: the full sets when query_gemini is
\* called on its own, smaller ones when a chat request drives it
ByChat == chat # NoChat

StageTexts == IF ByChat THEN {"", "a"} ELSE Texts

StageUsages == IF ByChat THEN Usages \ {NoUsage} ELSE Usages

StageCitationsFs == IF ByChat THEN CitationsFs \ {<<>>} ELSE CitationsFs

StageCitationsGs == IF ByChat THEN {<<>>} ELSE CitationsGs

\* query_gemini is entered: the provider client and the game metadata of the
\* store are obtained, either of which may raise GeminiProviderError
StartQuery ==
    /\ query = IdleQuery
    /\ chat.pc \in {"none", "query"}
    /\ \/ query' = StartedQuery
       \/ \E e \in {"GOOGLE_API_KEY not configured in settings",
                    "Unable to resolve game metadata for the provided store identifier."} :
            query' = [StartedQuery EXCEPT !.pc = "raised", !.raised = e]
    /\ UNCHANGED outsideQuery

\* mutant: a failed stage 1 skips stage 2
AfterFileSearchSkipping(failed) == IF failed THEN "combine" ELSE "google_search"

\* where query_gemini goes on after stage 1, failed or not: the except
\* clause of stage 1 only records the error
AfterFileSearch(failed) == "google_search"

\* stage 1: the file_search call and the extraction of its answer
RunFileSearch ==
    /\ query.pc = "file_search"
    /\ \/ \E t \in StageTexts, c \in StageCitationsFs, u \in StageUsages :
            query' = [query EXCEPT !.pc = AfterFileSearch(FALSE),
                                   !.calls = Append(@, "file_search"),
                                   !.answer_text_fs = t,
                                   !.citations_fs = c,
                                   !.usage_metadata_fs = u]
       \/ \E e \in Exceptions :
            query' = [query EXCEPT !.pc = AfterFileSearch(TRUE),
                                   !.calls = Append(@, "file_search"),
                                   !.file_search_error =
                                       "Gemini file search query failed: " \o e,
                                   !.answer_text_fs = "",
                                   !.citations_fs = <<>>]
    /\ UNCHANGED outsideQuery

\* stage 2: the google_search call and the extraction of its answer
RunGoogleSearch ==
    /\ query.pc = "google_search"
    /\ \/ \E t \in StageTexts, c \in StageCitationsGs, u \in StageUsages :
            query' = [query EXCEPT !.pc = "combine",
                                   !.calls = Append(@, "google_search"),
                                   !.answer_text_gs = t,
                                   !.citations_gs = c,
                                   !.usage_metadata_gs = u]
       \/ \E e \in Exceptions :
            query' = [query EXCEPT !.pc = "combine",
                                   !.calls = Append(@, "google_search"),
                                   !.google_search_error =
                                       "Gemini google search query failed: " \o e,
                                   !.answer_text_gs = "",
                                   !.citations_gs = <<>>]
    /\ UNCHANGED outsideQuery

\* mutant: with both stages failed the sentinel is returned
AfterStagesNeverRaises(q) ==
    IF q.file_search_error # Null
    THEN [q EXCEPT !.pc = "returned",
                   !.result = SingleStageResult(q.answer_text_gs, q.citations_gs,
                                  q.usage_metadata_gs, "file_search", q.file_search_error)]
    ELSE IF q.google_search_error # Null
    THEN [q EXCEPT !.pc = "returned",
                   !.result = SingleStageResult(q.answer_text_fs, q.citations_fs,
                                  q.usage_metadata_fs, "google_search",
                                  q.google_search_error)]
    ELSE [q EXCEPT !.pc = "synthesis"]

\* after both stages: raise when both failed, return the surviving stage
\* when one failed, go on to the synthesis otherwise
AfterStages(q) ==
    IF q.file_search_error # Null /\ q.google_search_error # Null
    THEN [q EXCEPT !.pc = "raised",
                   !.raised = "Both queries failed. File search: "
                       \o q.file_search_error \o ". Google search: "
                       \o q.google_search_error]
    ELSE IF q.file_search_error # Null
    THEN [q EXCEPT !.pc = "returned",
                   !.result = SingleStageResult(q.answer_text_gs, q.citations_gs,
                                  q.usage_metadata_gs, "file_search", q.file_search_error)]
    ELSE IF q.google_search_error # Null
    THEN [q EXCEPT !.pc = "returned",
                   !.result = SingleStageResult(q.answer_text_fs, q.citations_fs,
                                  q.usage_metadata_fs, "google_search",
                                  q.google_search_error)]
    ELSE [q EXCEPT !.pc = "synthesis"]

Combine ==
    /\ query.pc = "combine"
    /\ query' = AfterStages(query)
    /\ UNCHANGED outsideQuery

\* stage 3: the synthesis call, the fallback when it raises, and the result
RunSynthesis ==
    /\ query.pc = "synthesis"
    /\ \/ \E t \in StageTexts, u \in StageUsages :
            query' = [query EXCEPT !.pc = "returned",
                                   !.calls = Append(@, "synthesis"),
                                   !.synthesis_text = t,
                                   !.result = CombinedResult(query, t, u)]
       \/ \E e \in Exceptions :
            LET failed == [query EXCEPT !.synthesis_error = "Synthesis failed: " \o e]
            IN  query' = [failed EXCEPT !.pc = "returned",
                                        !.calls = Append(@, "synthesis"),
                                        !.result = CombinedResult(failed,
                                            SynthesisFallback(failed), NoUsage)]
    /\ UNCHANGED outsideQuery

\* the caller takes the result or the error
FinishQuery ==
    /\ chat = NoChat
    /\ query.pc \in {"returned", "raised"}
    /\ query' = IdleQuery
    /\ UNCHANGED outsideQuery

InitQuery ==
    /\ query = IdleQuery
    /\ environment = "prod"
    /\ flags = {}
    /\ access = NoCall
    /\ now = 0
    /\ events = EmptyBag
    /\ ledger = NoCall
    /\ sessions = <<>>
    /\ session_call = NoCall
    /\ documents = {}
    /\ locator = NoCall
    /\ messages = <<>>
    /\ chat = NoChat

NextQuery ==
    StartQuery \/ RunFileSearch \/ RunGoogleSearch \/ Combine \/ RunSynthesis
        \/ FinishQuery


(***************************************************************************)
(* Usage ledger (usage_tracking.py)                                        *)
(***************************************************************************)
MaxTick == 3

MaxEvents == 2

MaxLimit == 3

\* ticks of the clock in one UTC day
TicksPerDay == 2

UsageUsers == {"u1", "u2"}

EventTypes == {"chat_question", "chat_answer"}

UsageGames == {"g1", "g2"}

Max(a, b) == IF a >= b THEN a ELSE b

\* a row of usage_events
UsageEvent(user_id, event_type, game_id, env, timestamp) ==
    [user_id |-> user_id, game_id |-> game_id, event_type |-> event_type,
     environment |-> env, timestamp |-> timestamp]

\* utcnow() with the time of day set to 00:00:00
today_start(t) == t - (t % TicksPerDay)

\* mutant: the count is not restricted to the current day
get_daily_usage_count_all_days(store, env, t, user_id, event_type, game_id, read_failed) ==
    IF read_failed THEN 0
    ELSE LET rows == {e \in BagToSet(store) :
                        /\ e.user_id = user_id
                        /\ e.event_type = event_type
                        /\ e.environment = env
                        /\ (game_id # Null => e.game_id = game_id)}
         IN  BagCardinality([e \in rows |-> store[e]])

\* the exact count of the rows of today for the user, event type and running
\* environment, of one game when game_id is given; 0 when the read fails
get_daily_usage_count(store, env, t, user_id, event_type, game_id, read_failed) ==
    IF read_failed THEN 0
    ELSE LET rows == {e \in BagToSet(store) :
                        /\ e.user_id = user_id
                        /\ e.event_type = event_type
                        /\ e.environment = env
                        /\ e.timestamp >= today_start(t)
                        /\ (game_id # Null => e.game_id = game_id)}
         IN  BagCardinality([e \in rows |-> store[e]])

\* mutant: a failed read counts as an exhausted quota
check_daily_limit_fail_closed(store, env, t, user_id, event_type, daily_limit, game_id, read_failed) ==
    LET daily_used == IF read_failed THEN daily_limit
                      ELSE get_daily_usage_count(store, env, t, user_id, event_type,
                                                 game_id, read_failed)
        remaining == Max(0, daily_limit - daily_used)
    IN  [has_quota |-> remaining > 0, daily_used |-> daily_used,
         daily_limit |-> daily_limit, remaining |-> remaining,
         reset_at |-> today_start(t) + TicksPerDay]

check_daily_limit(store, env, t, user_id, event_type, daily_limit, game_id, read_failed) ==
    LET daily_used == get_daily_usage_count(store, env, t, user_id, event_type,
                                            game_id, read_failed)
        remaining == Max(0, daily_limit - daily_used)
    IN  [has_quota |-> remaining > 0, daily_used |-> daily_used,
         daily_limit |-> daily_limit, remaining |-> remaining,
         reset_at |-> today_start(t) + TicksPerDay]

\* what a log_usage_event call may meet
LogOutcomes == {"ok", "insert_failed", "client_failed"}

\* the table after log_usage_event: one more row unless the call failed
Logged(store, env, t, user_id, event_type, game_id, outcome) ==
    IF outcome = "ok"
    THEN store (+) SetToBag({UsageEvent(user_id, event_type, game_id, env, t)})
    ELSE store

\* time passes
Tick ==
    /\ ledger = NoCall
    /\ now < MaxTick
    /\ now' = now + 1
    /\ UNCHANGED outsideClock

\* log_usage_event: the insert failure is swallowed, a failure to obtain the
\* client is raised to the caller
LogUsageEvent ==
    /\ ledger = NoCall
    /\ BagCardinality(events) < MaxEvents
    /\ \E user_id \in UsageUsers, event_type \in EventTypes, game_id \in UsageGames,
          outcome \in LogOutcomes :
         /\ events' = Logged(events, environment, now, user_id, event_type, game_id, outcome)
         /\ ledger' = [called |-> TRUE, op |-> "log_usage_event", user_id |-> user_id,
                       event_type |-> event_type, game_id |-> game_id,
                       outcome |-> outcome, raised |-> outcome = "client_failed"]
    /\ UNCHANGED <<environment, now>>
    /\ UNCHANGED outsideUsage

\* check_daily_limit over the table as it is
CheckDailyLimit ==
    /\ ledger = NoCall
    /\ \E user_id \in UsageUsers, game_id \in UsageGames \cup {Null},
          daily_limit \in 0..MaxLimit, read_failed \in BOOLEAN :
         ledger' = [called |-> TRUE, op |-> "check_daily_limit", user_id |-> user_id,
                    event_type |-> "chat_question", game_id |-> game_id,
                    daily_limit |-> daily_limit, read_failed |-> read_failed,
                    result |-> check_daily_limit(events, environment, now, user_id,
                                   "chat_question", daily_limit, game_id, read_failed)]
    /\ UNCHANGED <<environment, now, events>>
    /\ UNCHANGED outsideUsage

\* the caller takes the result
ReturnUsage ==
    /\ ledger # NoCall
    /\ ledger' = NoCall
    /\ UNCHANGED <<environment, now, events>>
    /\ UNCHANGED outsideUsage

\* an empty table, or one holding a row written by the deployment of the
\* other environment
InitUsage ==
    /\ environment \in Environments
    /\ now = 0
    /\ events \in {EmptyBag} \cup
           {SetToBag({UsageEvent("u1", "chat_question", "g1", env, 0)}) :
               env \in Environments \ {environment}}
    /\ ledger = NoCall
    /\ flags = {}
    /\ access = NoCall
    /\ query = [pc |-> "idle"]
    /\ sessions = <<>>
    /\ session_call = NoCall
    /\ documents = {}
    /\ locator = NoCall
    /\ messages = <<>>
    /\ chat = NoChat

NextUsage == Tick \/ LogUsageEvent \/ CheckDailyLimit \/ ReturnUsage


(***************************************************************************)
(* Session manager (chat_sessions.py)                                      *)
(***************************************************************************)
MaxSessions == 2

\* cap of total_messages
MaxTotalMessages == 2

SessionUsers == {"u1", "u2"}

SessionGames == {"g1"}

SessionLanguages == {"es"}

\* no session_id given, no session returned
NoSession == 0

\* what a call of the session manager may meet: no failure, or the failure
\* of one of its store operations
SessionFaults == {"none", "client", "lookup", "stamp", "insert"}

\* the row inserted for a new session
NewSession(user_id, game_id, language, t) ==
    [user_id |-> user_id, game_id |-> game_id, language |-> language,
     status |-> "active", total_messages |-> 0, total_token_estimate |-> 0,
     last_activity_at |-> t]

\* mutant: the lookup is not restricted to the caller's sessions
ActiveSessionOfAnyUser(table, session_id, user_id) ==
    {id \in DOMAIN table : /\ id = session_id
                           /\ table[id].status = "active"}

\* select by id, user_id and status "active"
ActiveSessionOf(table, session_id, user_id) ==
    {id \in DOMAIN table : /\ id = session_id
                           /\ table[id].user_id = user_id
                           /\ table[id].status = "active"}

\* mutant: resuming a session also counts a message
StampedAndCounted(table, session_id, t) ==
    [table EXCEPT ![session_id].last_activity_at = t,
                  ![session_id].total_messages = @ + 1]

\* update of last_activity_at by id
Stamped(table, session_id, t) ==
    [table EXCEPT ![session_id].last_activity_at = t]

\* get_or_create_session: the table afterwards, the id and the record
\* returned (the record as read, before the stamp), and whether it raised
get_or_create_session(table, t, user_id, game_id, language, session_id, fault) ==
    LET found == IF session_id # NoSession /\ fault # "lookup"
                 THEN ActiveSessionOf(table, session_id, user_id)
                 ELSE {}
    IN  IF fault = "client"
        THEN [table |-> table, returned |-> NoSession, raised |-> TRUE]
        ELSE IF found # {} /\ fault # "stamp"
        THEN [table |-> Stamped(table, session_id, t), returned |-> session_id,
              raised |-> FALSE]
        ELSE IF fault = "insert"
        THEN [table |-> table, returned |-> NoSession, raised |-> TRUE]
        ELSE [table |-> Append(table, NewSession(user_id, game_id, language, t)),
              returned |-> Len(table) + 1, raised |-> FALSE]

\* update_session_stats: read the counters, write them back incremented with
\* the refreshed last_activity_at; nothing when the read or the write fails or
\* the session is missing
update_session_stats(table, t, session_id, message_count_increment, token_estimate_increment, failed) ==
    IF failed \/ session_id \notin DOMAIN table
    THEN table
    ELSE [table EXCEPT
            ![session_id].total_messages = @ + message_count_increment,
            ![session_id].total_token_estimate = @ + token_estimate_increment,
            ![session_id].last_activity_at = t]

\* close_session: status "closed" by id, best effort
close_session(table, session_id, failed) ==
    IF failed \/ session_id \notin DOMAIN table
    THEN table
    ELSE [table EXCEPT ![session_id].status = "closed"]

\* get_or_create_session
GetOrCreateSession ==
    /\ session_call = NoCall
    /\ \E user_id \in SessionUsers, game_id \in SessionGames,
          language \in SessionLanguages, session_id \in 0..MaxSessions,
          fault \in SessionFaults :
         LET r == get_or_create_session(sessions, now, user_id, game_id, language,
                                        session_id, fault)
         IN  /\ Len(r.table) <= MaxSessions
             /\ sessions' = r.table
             /\ session_call' =
                  [called |-> TRUE, user_id |-> user_id, session_id |-> session_id,
                   fault |-> fault, returned |-> r.returned, raised |-> r.raised]
    /\ UNCHANGED now
    /\ UNCHANGED outsideSession

\* the caller takes the session
ReturnSession ==
    /\ session_call # NoCall
    /\ session_call' = NoCall
    /\ UNCHANGED <<now, sessions>>
    /\ UNCHANGED outsideSession

UpdateSessionStats ==
    /\ session_call = NoCall
    /\ \E session_id \in DOMAIN sessions, failed \in BOOLEAN :
         /\ sessions[session_id].total_messages + 2 <= MaxTotalMessages
         /\ sessions' = update_session_stats(sessions, now, session_id, 2, 3, failed)
    /\ UNCHANGED <<now, session_call>>
    /\ UNCHANGED outsideSession

CloseSession ==
    /\ session_call = NoCall
    /\ \E session_id \in DOMAIN sessions, failed \in BOOLEAN :
         sessions' = close_session(sessions, session_id, failed)
    /\ UNCHANGED <<now, session_call>>
    /\ UNCHANGED outsideSession

\* no session yet, or one that has been archived
InitSession ==
    /\ sessions \in {<<>>, <<[NewSession("u1", "g1", "es", 0) EXCEPT !.status = "archived"]>>}
    /\ session_call = NoCall
    /\ now = 0
    /\ environment = "prod"
    /\ flags = {}
    /\ access = NoCall
    /\ query = [pc |-> "idle"]
    /\ events = EmptyBag
    /\ ledger = NoCall
    /\ documents = {}
    /\ locator = NoCall
    /\ messages = <<>>
    /\ chat = NoChat

NextSession ==
    Tick \/ GetOrCreateSession \/ ReturnSession \/ UpdateSessionStats \/ CloseSession


(***************************************************************************)
(* Knowledge locator (routes/genai.py)                                     *)
(***************************************************************************)
MaxDocuments == 3

DocumentGames == {"g1", "g2"}

Languages == {"es", "en"}

DocumentStatuses == {"ready", "processing"}

StoreIds == {Null, "fileSearchStores/a", "fileSearchStores/b"}

\* the rows the documents table may hold
DocumentUniverse ==
    [game_id : DocumentGames, language : Languages, status : DocumentStatuses,
     vector_store_id : StoreIds]

\* what a lookup may meet: no failure, or the failure of obtaining the
\* client, of the first query, of the query for "en"
LocatorFaults == {"none", "client", "query", "fallback_query"}

\* mutant: documents that are not ready are selected too
ReadyStoresAnyStatus(table, game_id, language) ==
    {d.vector_store_id :
        d \in {x \in table : /\ x.game_id = game_id
                             /\ x.language = language
                             /\ x.vector_store_id # Null}}

\* select vector_store_id where game_id, language, status "ready" and
\* vector_store_id not null: the values limit(1) may return
ReadyStores(table, game_id, language) ==
    {d.vector_store_id :
        d \in {x \in table : /\ x.game_id = game_id
                             /\ x.language = language
                             /\ x.status = "ready"
                             /\ x.vector_store_id # Null}}

\* _get_vector_store_id: the results the call may give
get_vector_store_id(table, game_id, language, fault) ==
    IF fault = "client" THEN {[raised |-> TRUE, vector_store_id |-> Null]}
    ELSE IF fault = "query" THEN {[raised |-> FALSE, vector_store_id |-> Null]}
    ELSE IF ReadyStores(table, game_id, language) # {}
    THEN {[raised |-> FALSE, vector_store_id |-> v] :
              v \in ReadyStores(table, game_id, language)}
    ELSE IF language # "en" /\ fault # "fallback_query"
            /\ ReadyStores(table, game_id, "en") # {}
    THEN {[raised |-> FALSE, vector_store_id |-> v] :
              v \in ReadyStores(table, game_id, "en")}
    ELSE {[raised |-> FALSE, vector_store_id |-> Null]}

\* a document is registered, or processed into a new state
AddDocument ==
    /\ locator = NoCall
    /\ Cardinality(documents) < MaxDocuments
    /\ \E d \in DocumentUniverse \ documents : documents' = documents \cup {d}
    /\ UNCHANGED locator
    /\ UNCHANGED outsideLocator

DeleteDocument ==
    /\ locator = NoCall
    /\ \E d \in documents : documents' = documents \ {d}
    /\ UNCHANGED locator
    /\ UNCHANGED outsideLocator

GetVectorStoreId ==
    /\ locator = NoCall
    /\ \E game_id \in DocumentGames, language \in Languages, fault \in LocatorFaults :
         \E r \in get_vector_store_id(documents, game_id, language, fault) :
            locator' = [called |-> TRUE, game_id |-> game_id, language |-> language,
                        fault |-> fault, raised |-> r.raised,
                        vector_store_id |-> r.vector_store_id]
    /\ UNCHANGED documents
    /\ UNCHANGED outsideLocator

\* the caller takes the result
ReturnStoreId ==
    /\ locator # NoCall
    /\ locator' = NoCall
    /\ UNCHANGED documents
    /\ UNCHANGED outsideLocator

InitLocator ==
    /\ documents = {}
    /\ locator = NoCall
    /\ environment = "prod"
    /\ flags = {}
    /\ access = NoCall
    /\ query = [pc |-> "idle"]
    /\ now = 0
    /\ events = EmptyBag
    /\ ledger = NoCall
    /\ sessions = <<>>
    /\ session_call = NoCall
    /\ messages = <<>>
    /\ chat = NoChat

NextLocator == AddDocument \/ DeleteDocument \/ GetVectorStoreId \/ ReturnStoreId


(***************************************************************************)
(* Chat request (routes/genai.py, services/games.py, chat_sessions.py)     *)
(***************************************************************************)
MaxRequests == 1

\* ids of the rows of the games table
GamesTable == {"g1", "g2"}

ChatRoles == {"basic"}

ChatGames == {"g1", "g2"}

ChatLanguages == {"es"}

Question == "q"

\* the history page asked for by the route
HistoryLimit == 10

\* get_user_accessible_games: every game for admin and developer in
\* development and under an enabled global flag, else the games of the
\* enabled game-scoped flags; the lookups pass the user's role
get_user_accessible_games(store, env, games, user_role, read_failed) ==
    LET all_games == IF read_failed THEN {} ELSE games
        game_flags == get_feature_flags(store, env, "game_access", "game", Null, user_role)
        global_flags == get_feature_flags(store, env, "game_access", "global", Null, user_role)
    IN  IF user_role \in {"admin", "developer"} /\ is_development(env) THEN all_games
        ELSE IF \E f \in global_flags : f.enabled THEN all_games
        ELSE {f.scope_id : f \in {g \in game_flags : g.enabled /\ g.scope_id # Null}}

\* get_game_by_id: whether a game is returned
get_game_by_id(store, env, games, game_id, user_role, read_failed) ==
    /\ game_id \in get_user_accessible_games(store, env, games, user_role, read_failed)
    /\ ~read_failed
    /\ game_id \in games

check_chat_access(store, env, user_id, user_role, game_id) ==
    check_feature_access(store, env, user_id, user_role, "chat", "game", game_id, {})

\* add_message: the table afterwards; a failed call inserts nothing and raises
add_message(table, t, session_id, sender, content, failed) ==
    IF failed THEN table
    ELSE Append(table, [session_id |-> session_id, sender |-> sender,
                        content |-> content, created_at |-> t])

\* get_session_history: the rows of the session by created_at ascending, cut
\* by limit(limit); [] when the read fails
get_session_history(table, session_id, limit, failed) ==
    LET rows == SelectSeq(table, LAMBDA m : m.session_id = session_id)
    IN  IF failed THEN <<>>
        ELSE IF Len(rows) <= limit THEN rows
        ELSE SubSeq(rows, 1, limit)

\* limits_info of a request
NoLimits ==
    [present |-> FALSE, daily_limit |-> 0, daily_used |-> 0, remaining |-> 0, reset_at |-> 0]

ChatUsageLimits(daily_limit, limit_check) ==
    [present |-> TRUE, daily_limit |-> daily_limit, daily_used |-> limit_check.daily_used,
     remaining |-> limit_check.remaining, reset_at |-> limit_check.reset_at]

\* ChatCitation(**citation): the fields the schema declares
ChatCitation(citation) ==
    [document_title |-> citation.document_title, excerpt |-> citation.excerpt]

\* ChatModelInfo(**model_info): the fields the schema declares
ChatModelInfo(model_info) ==
    [provider |-> model_info.provider, model_name |-> model_info.model_name,
     total_tokens |-> model_info.total_tokens,
     prompt_tokens |-> model_info.prompt_tokens,
     completion_tokens |-> model_info.completion_tokens]

\* the HTTPException raised by the route, or the exception left unhandled
HttpError(status, detail) == [status |-> status, detail |-> detail]

\* the response of a request answered
ChatQueryResponse(session_id, result, limits) ==
    [status |-> 200, session_id |-> session_id, answer |-> result.answer,
     citations |-> [i \in DOMAIN result.citations |-> ChatCitation(result.citations[i])],
     model_info |-> ChatModelInfo(result.model_info), limits |-> limits]

\* the locals of query_game_assistant; served counts the requests received
ChatLocals(served) ==
    [pc |-> "idle", served |-> served, user_id |-> Null, user_role |-> Null,
     game_id |-> Null, language |-> Null, asked_session_id |-> NoSession,
     metadata |-> NoneMeta, limits |-> NoLimits, session_id |-> NoSession,
     vector_store_id |-> Null, history |-> <<>>, stages_failed |-> {},
     answered |-> FALSE, result |-> Null, absorbed |-> {}, response |-> Null]

\* the request ends with an error response
Rejected(status, detail) ==
    [chat EXCEPT !.pc = "done", !.response = HttpError(status, detail)]

\* a request arrives, authenticated and validated
ReceiveChat ==
    /\ chat.pc \in {"idle", "done"}
    /\ chat.served < MaxRequests
    /\ \E user_role \in ChatRoles, game_id \in ChatGames, language \in ChatLanguages,
          session_id \in 0..Len(sessions) :
         chat' = [ChatLocals(chat.served + 1) EXCEPT
                     !.pc = "game_gate", !.user_id = "u1", !.user_role = user_role,
                     !.game_id = game_id, !.language = language,
                     !.asked_session_id = session_id]
    /\ UNCHANGED <<query, events, sessions, messages>>
    /\ UNCHANGED outsideChat

\* step 1: the game must be visible to the user
GameGate ==
    /\ chat.pc = "game_gate"
    /\ \E read_failed \in BOOLEAN :
         chat' = IF get_game_by_id(flags, environment, GamesTable, chat.game_id,
                                   chat.user_role, read_failed)
                 THEN [chat EXCEPT !.pc = "chat_access"]
                 ELSE Rejected(404, "Game not found or you don't have access to it")
    /\ UNCHANGED <<query, events, sessions, messages>>
    /\ UNCHANGED outsideChat

\* mutant: a request granted access goes to the session step at once
AfterChatAccessUnchecked(metadata) == "session"

\* where the route goes on once access is granted: step 3, which tests the
\* metadata of the flag for a daily limit
AfterChatAccess(metadata) == "quota"

\* step 2: the chat feature must be granted for the game
ChatAccess ==
    /\ chat.pc = "chat_access"
    /\ \E a \in check_chat_access(flags, environment, chat.user_id, chat.user_role,
                                  chat.game_id) :
         chat' = IF a.has_access
                 THEN [chat EXCEPT !.pc = AfterChatAccess(a.metadata),
                                   !.metadata = a.metadata]
                 ELSE Rejected(403, "You don't have access to chat for this game. Reason: "
                                    \o a.reason)
    /\ UNCHANGED <<query, events, sessions, messages>>
    /\ UNCHANGED outsideChat

\* step 3: the daily limit, when the flag's metadata carries one
Quota ==
    /\ chat.pc = "quota"
    /\ \E read_failed \in BOOLEAN :
         LET daily_limit == chat.metadata.daily_limit
             limit_check == check_daily_limit(events, environment, now, chat.user_id,
                                "chat_question", daily_limit, chat.game_id, read_failed)
         IN  chat' =
               IF chat.metadata.isNone \/ "daily_limit" \notin chat.metadata.keys
               THEN [chat EXCEPT !.pc = "session"]
               ELSE IF ~limit_check.has_quota
               THEN Rejected(403, "Daily limit reached")
               ELSE [chat EXCEPT !.pc = "session",
                                 !.limits = ChatUsageLimits(daily_limit, limit_check)]
    /\ UNCHANGED <<query, events, sessions, messages>>
    /\ UNCHANGED outsideChat

\* step 4: the session is resumed or created
ChatSession ==
    /\ chat.pc = "session"
    /\ \E fault \in SessionFaults :
         LET r == get_or_create_session(sessions, now, chat.user_id, chat.game_id,
                      chat.language, chat.asked_session_id, fault)
         IN  /\ Len(r.table) <= MaxSessions
             /\ sessions' = r.table
             /\ chat' = IF r.raised
                        THEN Rejected(500, "Failed to create or retrieve session")
                        ELSE [chat EXCEPT !.pc = "store", !.session_id = r.returned]
    /\ UNCHANGED <<query, events, messages>>
    /\ UNCHANGED outsideChat

\* step 5: the store of the game's documents
ChatStore ==
    /\ chat.pc = "store"
    /\ \E fault \in LocatorFaults :
         \E r \in get_vector_store_id(documents, chat.game_id, chat.language, fault) :
            chat' = IF r.raised THEN Rejected(500, "Internal Server Error")
                    ELSE IF r.vector_store_id = Null
                    THEN Rejected(404, "No knowledge base found")
                    ELSE [chat EXCEPT !.pc = "history",
                                      !.vector_store_id = r.vector_store_id]
    /\ UNCHANGED <<query, events, sessions, messages>>
    /\ UNCHANGED outsideChat

\* step 6: the history of the session
ChatHistory ==
    /\ chat.pc = "history"
    /\ \E failed \in BOOLEAN :
         chat' = [chat EXCEPT !.pc = "query",
                              !.history = get_session_history(messages, chat.session_id,
                                              HistoryLimit, failed)]
    /\ UNCHANGED <<query, events, sessions, messages>>
    /\ UNCHANGED outsideChat


\* step 7: the route takes what query_gemini returned or raised;
\* stages_failed keeps which stages of the query had failed, answered
\* whether a result was returned
TakeQueryResult ==
    /\ chat.pc = "query"
    /\ query.pc \in {"returned", "raised"}
    /\ LET stages == {k \in {"file_search", "google_search", "synthesis"} :
                        \/ k = "file_search" /\ query.file_search_error # Null
                        \/ k = "google_search" /\ query.google_search_error # Null
                        \/ k = "synthesis" /\ query.synthesis_error # Null}
       IN  chat' = IF query.pc = "raised"
                   THEN [Rejected(500, "AI provider error: " \o query.raised)
                            EXCEPT !.stages_failed = stages]
                   ELSE [chat EXCEPT !.pc = "store_user", !.result = query.result,
                                     !.answered = TRUE, !.stages_failed = stages]
    /\ query' = IdleQuery
    /\ UNCHANGED <<events, sessions, messages>>
    /\ UNCHANGED outsideChat

\* mutant: a failure while storing or logging fails the request
Propagated(c, step, failed, next) ==
    IF failed
    THEN [c EXCEPT !.pc = "done", !.response = HttpError(500, "Internal Server Error")]
    ELSE [c EXCEPT !.pc = next]

\* the except clauses of steps 8 to 11: the failure is printed and the
\* request goes on; absorbed keeps the steps that failed
Absorbed(c, step, failed, next) ==
    [c EXCEPT !.pc = next, !.absorbed = IF failed THEN @ \cup {step} ELSE @]

\* step 8: the question is stored
StoreUserMessage ==
    /\ chat.pc = "store_user"
    /\ \E failed \in BOOLEAN :
         /\ messages' = add_message(messages, now, chat.session_id, "user", Question, failed)
         /\ chat' = Absorbed(chat, "user_message", failed, "store_assistant")
    /\ UNCHANGED <<query, events, sessions>>
    /\ UNCHANGED outsideChat

\* step 9: the answer is stored
StoreAssistantMessage ==
    /\ chat.pc = "store_assistant"
    /\ \E failed \in BOOLEAN :
         /\ messages' = add_message(messages, now, chat.session_id, "assistant",
                                    chat.result.answer, failed)
         /\ chat' = Absorbed(chat, "assistant_message", failed, "stats")
    /\ UNCHANGED <<query, events, sessions>>
    /\ UNCHANGED outsideChat

\* step 10: the counters of the session
ChatSessionStats ==
    /\ chat.pc = "stats"
    /\ \E failed \in BOOLEAN :
         LET total_tokens == chat.result.model_info.total_tokens
             token_estimate == IF total_tokens = NoTokens THEN 0 ELSE total_tokens
         IN  /\ sessions' = update_session_stats(sessions, now, chat.session_id, 2,
                                                 token_estimate, failed)
             /\ chat' = Absorbed(chat, "session_stats", failed, "analytics")
    /\ UNCHANGED <<query, events, messages>>
    /\ UNCHANGED outsideChat

\* step 11: the two analytics events; a call that raises skips the second
ChatAnalytics ==
    /\ chat.pc = "analytics"
    /\ \E first \in LogOutcomes, second \in LogOutcomes :
         LET asked == Logged(events, environment, now, chat.user_id, "chat_question",
                             chat.game_id, first)
             answered == Logged(asked, environment, now, chat.user_id, "chat_answer",
                                chat.game_id, second)
         IN  /\ events' = IF first = "client_failed" THEN events ELSE answered
             /\ chat' = Absorbed(chat, "analytics",
                                 first # "ok" \/ second # "ok", "respond")
    /\ UNCHANGED <<query, sessions, messages>>
    /\ UNCHANGED outsideChat

\* step 12: the response is built
Respond ==
    /\ chat.pc = "respond"
    /\ chat' = [chat EXCEPT !.pc = "done",
                            !.response = ChatQueryResponse(chat.session_id, chat.result,
                                                           chat.limits)]
    /\ UNCHANGED <<query, events, sessions, messages>>
    /\ UNCHANGED outsideChat

\* the documents of the deployment: "es" for g1, only "en" for g2
ChatDocuments ==
    {[game_id |-> "g1", language |-> "es", status |-> "ready",
      vector_store_id |-> "fileSearchStores/a"],
     [game_id |-> "g2", language |-> "en", status |-> "ready",
      vector_store_id |-> "fileSearchStores/b"]}

\* the flags of the deployment: none; the games visible; chat granted
\* without and with a daily limit
ChatFlagStores ==
    LET game_access == Flag("global", Null, "game_access", "basic", "prod", TRUE, NoneMeta)
    IN  {{},
         {game_access},
         {game_access, Flag("global", Null, "chat", "basic", "prod", TRUE, NoneMeta)},
         {game_access, Flag("global", Null, "chat", "basic", "prod", TRUE, LimitMeta(1))}}

InitChat ==
    /\ environment = "prod"
    /\ flags \in ChatFlagStores
    /\ documents = ChatDocuments
    /\ sessions \in {<<>>, <<NewSession("u1", "g1", "es", 0)>>}
    /\ events \in {EmptyBag,
                   SetToBag({UsageEvent("u1", "chat_question", "g2", "prod", 0)})}
    /\ messages = <<>>
    /\ chat = ChatLocals(0)
    /\ query = IdleQuery
    /\ now = 0
    /\ access = NoCall
    /\ ledger = NoCall
    /\ session_call = NoCall
    /\ locator = NoCall

NextChat ==
    ReceiveChat \/ GameGate \/ ChatAccess \/ Quota \/ ChatSession \/ ChatStore
        \/ ChatHistory \/ StartQuery \/ RunFileSearch \/ RunGoogleSearch \/ Combine
        \/ RunSynthesis \/ TakeQueryResult \/ StoreUserMessage \/ StoreAssistantMessage
        \/ ChatSessionStats \/ ChatAnalytics \/ Respond

(***************************************************************************)
(* Specifications                                                          *)
(***************************************************************************)
SpecAccess == InitAccess /\ [][NextAccess]_vars

SpecQuery == InitQuery /\ [][NextQuery]_vars

SpecUsage == InitUsage /\ [][NextUsage]_vars

SpecSession == InitSession /\ [][NextSession]_vars

SpecLocator == InitLocator /\ [][NextLocator]_vars

SpecChat == InitChat /\ [][NextChat]_vars

(***************************************************************************)
(* Properties of the resolver                                              *)
(***************************************************************************)
\* the call in progress took one of the admin/developer early returns
Bypassed == Bypass(environment, access.user_role) # {}

\* rows of the running environment scoped to the caller, for the feature asked
UserFlags ==
    {f \in flags : /\ f.scope_type = "user"
                   /\ f.scope_id = access.user_id
                   /\ f.feature_key = access.feature_key
                   /\ f.environment = environment}

\* enabled rows of the running environment at game, section or global scope
EnabledBelowUser ==
    {f \in flags : /\ f.scope_type \in {"game", "section", "global"}
                   /\ f.feature_key = access.feature_key
                   /\ f.environment = environment
                   /\ f.enabled}

MatchesCandidate(f, cand) ==
    /\ f.feature_key = access.feature_key
    /\ f.environment = environment
    /\ f.scope_type = cand[1]
    /\ f.scope_id = cand[2]
    /\ f.role = cand[3]

CallCandidates ==
    FlagsToCheck(access.user_id, access.user_role, access.scope_type, access.scope_id)

\* C2: for a user outside the bypass, if no candidate of the precedence chain
\* has a matching flag, checkAccess returns has_access = false with the "no
\* feature flag found" reason and no metadata
C2_NoFlagDenies ==
    (/\ access.called
     /\ ~Bypassed
     /\ \A i \in 1..Len(CallCandidates) :
          \A f \in flags : ~MatchesCandidate(f, CallCandidates[i]))
    => access.result = NoFlagDecision(access.feature_key, access.scope_type)

\* C3: for role admin checkAccess returns has_access = true, whatever the
\* feature, scope, environment, flag store and failing lookups
C3_AdminAlwaysGranted ==
    (access.called /\ access.user_role = "admin") => access.result.has_access

\* an admin call in production with a disabled user-scoped flag in the store
\* and a failing lookup
C3_Witness ==
    /\ access.called
    /\ access.user_role = "admin"
    /\ environment = "prod"
    /\ \E f \in UserFlags : ~f.enabled
    /\ access.failed # {}
    /\ access.result.has_access

(***************************************************************************)
(* Properties of the query orchestrator                                    *)
(***************************************************************************)
OnlyFileSearchFailed ==
    /\ query.pc = "returned"
    /\ query.file_search_error # Null
    /\ query.google_search_error = Null

OnlyGoogleSearchFailed ==
    /\ query.pc = "returned"
    /\ query.google_search_error # Null
    /\ query.file_search_error = Null

\* the result carries this stage's answer (stripped, the sentinel when that
\* is empty), citations and token counts, and only this error under key
CarriesStage(result, text, citations, usage, key, error) ==
    /\ result.answer = (IF Strip(text) = "" THEN Sentinel ELSE Strip(text))
    /\ result.citations = citations
    /\ result.model_info.total_tokens = (IF usage.present THEN usage.total ELSE NoTokens)
    /\ result.model_info.prompt_tokens = (IF usage.present THEN usage.prompt ELSE NoTokens)
    /\ result.model_info.completion_tokens =
           (IF usage.present THEN usage.completion ELSE NoTokens)
    /\ DOMAIN result.model_info.errors = {key}
    /\ result.model_info.errors[key] = error

\* C5: if exactly one grounded stage fails, the orchestration returns without
\* a synthesis call; answer, citations and token usage are those of the
\* surviving stage, and model_info.errors holds the failed stage's error under
\* its key
C5_SingleStageFailure ==
    /\ OnlyFileSearchFailed =>
         /\ CarriesStage(query.result, query.answer_text_gs, query.citations_gs,
                         query.usage_metadata_gs, "file_search", query.file_search_error)
         /\ query.calls = <<"file_search", "google_search">>
    /\ OnlyGoogleSearchFailed =>
         /\ CarriesStage(query.result, query.answer_text_fs, query.citations_fs,
                         query.usage_metadata_fs, "google_search", query.google_search_error)
         /\ query.calls = <<"file_search", "google_search">>
    /\ (query.pc \in {"synthesis", "raised"}) =>
         ~(query.file_search_error # Null /\ query.google_search_error = Null)
    /\ (query.pc = "synthesis") => query.google_search_error = Null

\* the file search failed and the web search answered "a"
C5_Witness ==
    /\ OnlyFileSearchFailed
    /\ query.answer_text_gs = "a"
    /\ query.citations_gs # <<>>
    /\ query.usage_metadata_gs.present
    /\ query.result.answer = "a"
    /\ "file_search" \in DOMAIN query.result.model_info.errors

\* the text the returned answer is taken from
DeterminingText ==
    IF query.file_search_error # Null THEN query.answer_text_gs
    ELSE IF query.google_search_error # Null THEN query.answer_text_fs
    ELSE IF query.synthesis_error = Null THEN query.synthesis_text
    ELSE IF query.answer_text_fs # "" THEN query.answer_text_fs
    ELSE IF query.answer_text_gs # "" THEN query.answer_text_gs
    ELSE Sentinel

\* C6: a returned answer is never empty, and it is exactly the sentinel when
\* the text it is taken from is empty or whitespace
C6_AnswerNeverEmpty ==
    query.pc = "returned" =>
        /\ query.result.answer # ""
        /\ Strip(DeterminingText) = "" => query.result.answer = Sentinel
        /\ Strip(DeterminingText) # "" => query.result.answer = Strip(DeterminingText)

\* the synthesis failed and the fallback text is whitespace only
C6_Witness ==
    /\ query.pc = "returned"
    /\ query.synthesis_error # Null
    /\ DeterminingText = " "
    /\ query.result.answer = Sentinel

(***************************************************************************)
(* Properties of the usage ledger                                          *)
(***************************************************************************)
\* a check_daily_limit call whose count read succeeded has just returned
QuotaChecked ==
    /\ ledger # NoCall
    /\ ledger.op = "check_daily_limit"
    /\ ~ledger.read_failed

\* the rows logged by this deployment within the current UTC day for the
\* user and event type of the call, under the game filter of the call
LoggedToday ==
    {e \in BagToSet(events) :
        /\ e.user_id = ledger.user_id
        /\ e.event_type = ledger.event_type
        /\ e.environment = environment
        /\ e.timestamp \div TicksPerDay = now \div TicksPerDay
        /\ (ledger.game_id # Null => e.game_id = ledger.game_id)}

\* N of the claim: the number of those rows, one per successful call
LoggedTodayCount == BagCardinality([e \in LoggedToday |-> events[e]])

\* C7: when the count read does not fail, after N successful log_usage_event
\* calls of type chat_question for one user within one UTC day (same
\* environment and game filter), check_daily_limit returns daily_used = N,
\* remaining = max(0, daily_limit - N) and has_quota exactly when
\* remaining > 0; so has_quota = false and remaining = 0 for daily_limit = N,
\* has_quota = true and remaining = 1 for daily_limit = N + 1
C7_DailyLimitRoundTrip ==
    QuotaChecked =>
        LET N == LoggedTodayCount
            r == ledger.result
        IN  /\ r.daily_used = N
            /\ r.remaining = (IF ledger.daily_limit > N THEN ledger.daily_limit - N ELSE 0)
            /\ r.has_quota <=> r.remaining > 0
            /\ ledger.daily_limit = N => (~r.has_quota /\ r.remaining = 0)
            /\ ledger.daily_limit = N + 1 => (r.has_quota /\ r.remaining = 1)

\* one question logged today and one yesterday, checked against a limit of 1
C7_Witness ==
    /\ QuotaChecked
    /\ LoggedTodayCount = 1
    /\ \E e \in BagToSet(events) \ LoggedToday :
          /\ e.user_id = ledger.user_id
          /\ e.event_type = ledger.event_type
          /\ e.environment = environment
          /\ e.game_id = ledger.game_id
    /\ ledger.daily_limit = 1
    /\ ~ledger.result.has_quota
    /\ ledger.result.remaining = 0

(***************************************************************************)
(* Properties of the session manager                                       *)
(***************************************************************************)
\* the session id asked for exists, is owned by the caller and is active
ValidSessionId(table, session_id, user_id) ==
    /\ session_id \in DOMAIN table
    /\ table[session_id].user_id = user_id
    /\ table[session_id].status = "active"

\* the step is a get_or_create_session call with a valid session id, none of
\* whose store operations fails
ResumeStep ==
    /\ GetOrCreateSession
    /\ session_call'.fault = "none"
    /\ ValidSessionId(sessions, session_call'.session_id, session_call'.user_id)

\* C8: when no store operation fails, every get_or_create_session call with a
\* valid session id (existing, owned by the caller, active), hence each of two
\* calls in a row, returns that session id, creates no session and changes
\* nothing in the table except last_activity_at of that session;
\* total_messages and total_token_estimate are unchanged
C8_ResumptionIdempotent ==
    [][ResumeStep =>
          LET sid == session_call'.session_id
          IN  /\ session_call'.returned = sid
              /\ ~session_call'.raised
              /\ Len(sessions') = Len(sessions)
              /\ \A id \in DOMAIN sessions :
                    /\ sessions'[id].user_id = sessions[id].user_id
                    /\ sessions'[id].game_id = sessions[id].game_id
                    /\ sessions'[id].language = sessions[id].language
                    /\ sessions'[id].status = sessions[id].status
                    /\ sessions'[id].total_messages = sessions[id].total_messages
                    /\ sessions'[id].total_token_estimate = sessions[id].total_token_estimate
                    /\ id # sid => sessions'[id].last_activity_at = sessions[id].last_activity_at
              /\ sessions'[sid].last_activity_at = now]_vars

\* the only session of the table, with two counted messages, has just been
\* resumed by its id at a tick later than its creation: the call returned the
\* id asked for and stamped the session with the current tick
C8_Witness ==
    /\ session_call # NoCall
    /\ session_call.fault = "none"
    /\ session_call.returned = session_call.session_id
    /\ Len(sessions) = 1
    /\ sessions[session_call.session_id].total_messages = 2
    /\ sessions[session_call.session_id].last_activity_at = now
    /\ now > 1

(***************************************************************************)
(* Properties of the knowledge locator                                     *)
(***************************************************************************)
\* documents of the game asked for, in the language given, that are ready
\* and carry a store reference
Eligible(language) ==
    {d \in documents : /\ d.game_id = locator.game_id
                       /\ d.language = language
                       /\ d.status = "ready"
                       /\ d.vector_store_id # Null}

\* C9: when no store operation of the lookup fails, the result is the store
\* id of a ready document with a store reference of the game in the language
\* asked for when one exists; otherwise, the language not being "en", that of
\* such a document in "en" when one exists; otherwise null. Documents that
\* are not ready or have no store reference never determine the result
C9_ResolveStore ==
    (locator # NoCall /\ locator.fault = "none") =>
        /\ ~locator.raised
        /\ Eligible(locator.language) # {} =>
              \E d \in Eligible(locator.language) :
                  locator.vector_store_id = d.vector_store_id
        /\ (Eligible(locator.language) = {} /\ locator.language # "en"
              /\ Eligible("en") # {}) =>
              \E d \in Eligible("en") : locator.vector_store_id = d.vector_store_id
        /\ (Eligible(locator.language) = {}
              /\ (locator.language = "en" \/ Eligible("en") = {})) =>
              locator.vector_store_id = Null

\* "es" asked for a game whose only ready document with a store is in "en",
\* next to an "es" document still processing and a ready one without store
C9_Witness ==
    /\ locator # NoCall
    /\ locator.fault = "none"
    /\ locator.language = "es"
    /\ Eligible("es") = {}
    /\ \E d \in documents : /\ d.game_id = locator.game_id
                            /\ d.language = "es"
                            /\ d.status = "processing"
                            /\ d.vector_store_id # Null
    /\ \E d \in documents : /\ d.game_id = locator.game_id
                            /\ d.language = "es"
                            /\ d.status = "ready"
                            /\ d.vector_store_id = Null
    /\ \E d \in Eligible("en") : locator.vector_store_id = d.vector_store_id

(***************************************************************************)
(* Properties of the chat request                                          *)
(***************************************************************************)
BothStagesFailed ==
    /\ query.pc \in {"combine", "synthesis", "returned", "raised"}
    /\ query.file_search_error # Null
    /\ query.google_search_error # Null

\* C4: if both the document-grounded and the web-grounded stage fail,
\* query_gemini returns no answer and makes no synthesis call: it raises the
\* provider error "Both queries failed ...", and the chat request ends with
\* status 500 "AI provider error: ...", without an answer
C4_BothStagesFailed ==
    /\ (BothStagesFailed /\ query.pc # "combine") =>
          /\ query.pc = "raised"
          /\ SubSeq(query.raised, 1, 19) = "Both queries failed"
          /\ query.calls = <<"file_search", "google_search">>
    /\ (chat.pc = "done" /\ {"file_search", "google_search"} \subseteq chat.stages_failed) =>
          /\ ~chat.answered
          /\ chat.response.status = 500
          /\ SubSeq(chat.response.detail, 1, 38) = "AI provider error: Both queries failed"
          /\ "answer" \notin DOMAIN chat.response

\* a chat request has ended after both stages of its query failed
C4_Witness ==
    /\ chat.pc = "done"
    /\ chat.stages_failed = {"file_search", "google_search"}
    /\ chat.response.status = 500
    /\ chat.session_id # NoSession
    /\ chat.vector_store_id # Null

PersistenceSteps == {"user_message", "assistant_message", "session_stats", "analytics"}

\* C10: once query_gemini has returned an answer, whatever failures are met
\* while storing the user message, storing the assistant message, updating
\* the session statistics and logging the analytics events, the request goes
\* through the remaining steps and ends with status 200, the session id and
\* the answer
C10_PersistenceNeverFails ==
    chat.answered =>
        /\ chat.pc \in {"store_user", "store_assistant", "stats", "analytics",
                        "respond", "done"}
        /\ chat.absorbed \subseteq PersistenceSteps
        /\ chat.pc = "done" =>
              /\ chat.response.status = 200
              /\ chat.response.session_id = chat.session_id
              /\ chat.response.session_id # NoSession
              /\ chat.response.answer = chat.result.answer
              /\ chat.response.answer # ""

\* a request answered although all four steps failed
C10_Witness ==
    /\ chat.pc = "done"
    /\ chat.answered
    /\ chat.absorbed = PersistenceSteps
    /\ chat.response.status = 200
    /\ messages = <<>>
    /\ BagToSet(events) = {}

(***************************************************************************)
(* Failures of log_usage_event                                             *)
(***************************************************************************)
\* a log_usage_event call has just returned or raised
LogCalled ==
    /\ ledger # NoCall
    /\ ledger.op = "log_usage_event"

\* C11: log_usage_event never raises to its caller: whether obtaining the
\* store client or inserting the row fails, the call returns normally
C11_LogNeverRaises ==
    LogCalled => ~ledger.raised

(***************************************************************************)
(* The concurrent candidate lookups of check_feature_access                *)
(* (feature_flags.py:121-163): the lookups are issued together, complete   *)
(* in any order, and their results are consumed by position                *)
(***************************************************************************)
\* mutant: the results are consumed as soon as one lookup has completed
GatherFirstCompleted(completed, n) == completed # {}

\* asyncio.gather returns when every task has completed
GatherDone(completed, n) == completed = 1..n

\* the loop over the gathered results from position i on: an empty result
\* (no row, a failed query, an exception kept by gather) is skipped
RECURSIVE EvaluateResults(_, _, _, _, _)
EvaluateResults(results, cands, feature_key, scope_type, i) ==
    IF i > Len(cands)
    THEN {NoFlagDecision(feature_key, scope_type)}
    ELSE IF results[i] = {}
         THEN EvaluateResults(results, cands, feature_key, scope_type, i + 1)
         ELSE {FlagDecision(f, cands[i], feature_key) : f \in results[i]}

\* the roles, feature and scopes of the calls whose lookups are followed
GatherRoles == {"admin", "basic"}

GatherScopes == {<<"global", Null>>, <<"game", "g1">>}

\* check_feature_access up to the creation of the lookup tasks; a call under
\* the bypass returns at once
IssueLookups ==
    /\ access = NoCall
    /\ \E user_id \in Callers, user_role \in GatherRoles, s \in GatherScopes :
         LET cands == FlagsToCheck(user_id, user_role, s[1], s[2])
             call == [called |-> TRUE, user_id |-> user_id, user_role |-> user_role,
                      feature_key |-> "chat", scope_type |-> s[1], scope_id |-> s[2],
                      failed |-> {}, completed |-> {}, out_of_order |-> FALSE]
         IN  IF Bypass(environment, user_role) # {}
             THEN \E r \in Bypass(environment, user_role) :
                    access' = call @@ [pc |-> "returned",
                                       result |-> FeatureAccess(TRUE, "chat", r, NoneMeta)]
             ELSE access' = call @@ [pc |-> "gathering",
                                     results |-> [i \in 1..Len(cands) |-> {}]]
    /\ UNCHANGED <<environment, flags>>
    /\ UNCHANGED outsideAccess

\* one pending lookup completes, whatever its position: get_feature_flags
\* gives the selected rows, or nothing when its query fails
CompleteLookup ==
    /\ access # NoCall
    /\ access.pc = "gathering"
    /\ \E i \in DOMAIN access.results \ access.completed, fails \in BOOLEAN :
         LET cand == CallCandidates[i]
             rows == IF fails THEN {}
                     ELSE get_feature_flags(flags, environment, access.feature_key,
                                            cand[1], cand[2], cand[3])
         IN  /\ fails => Cardinality(access.failed) < MaxFailed
             /\ access' = [access EXCEPT
                             !.completed = @ \cup {i},
                             !.failed = IF fails THEN @ \cup {i} ELSE @,
                             !.out_of_order = @ \/ (1..i) \ {i} # access.completed \cap (1..i),
                             !.results[i] = rows]
    /\ UNCHANGED <<environment, flags>>
    /\ UNCHANGED outsideAccess

\* gather has returned: the results are inspected in the order of the
\* candidates and the first non-empty one decides
ConsumeResults ==
    /\ access # NoCall
    /\ access.pc = "gathering"
    /\ GatherDone(access.completed, Len(CallCandidates))
    /\ \E r \in EvaluateResults(access.results, CallCandidates, access.feature_key,
                                access.scope_type, 1) :
         access' = [called |-> TRUE, user_id |-> access.user_id,
                    user_role |-> access.user_role, feature_key |-> access.feature_key,
                    scope_type |-> access.scope_type, scope_id |-> access.scope_id,
                    pc |-> "returned", failed |-> access.failed,
                    completed |-> access.completed,
                    out_of_order |-> access.out_of_order, result |-> r]
    /\ UNCHANGED <<environment, flags>>
    /\ UNCHANGED outsideAccess

\* the caller takes the FeatureAccess
ReturnGathered ==
    /\ access # NoCall
    /\ access.pc = "returned"
    /\ access' = NoCall
    /\ UNCHANGED <<environment, flags>>
    /\ UNCHANGED outsideAccess

InitGather ==
    /\ environment \in Environments
    /\ flags = {}
    /\ access = NoCall
    /\ query = [pc |-> "idle"]
    /\ now = 0
    /\ events = EmptyBag
    /\ ledger = NoCall
    /\ sessions = <<>>
    /\ session_call = NoCall
    /\ documents = {}
    /\ locator = NoCall
    /\ messages = <<>>
    /\ chat = NoChat

NextGather ==
    AddFlag \/ RemoveFlag \/ IssueLookups \/ CompleteLookup \/ ConsumeResults \/ ReturnGathered

SpecGather == InitGather /\ [][NextGather]_vars

\* C12: whatever the order in which the concurrently issued lookups complete,
\* check_feature_access returns a decision (has_access, reason, metadata of
\* the winning flag) that evaluating the candidates one after the other in
\* the order (user, role), (user, any), (scope, role), (scope, any),
\* (global, role), (global, any) over the same store gives
C12_OrderIndependent ==
    (access # NoCall /\ access.pc = "returned")
    => access.result \in check_feature_access(flags, environment, access.user_id,
                             access.user_role, access.feature_key,
                             access.scope_type, access.scope_id, access.failed)

\* some lookup completed before one of an earlier position, flags of
\* opposite settings exist at the user and at the global scope, and the user
\* flag won
C12_Witness ==
    /\ access # NoCall
    /\ access.pc = "returned"
    /\ ~Bypassed
    /\ access.failed = {}
    /\ access.out_of_order
    /\ \E f \in flags, g \in flags :
         /\ MatchesCandidate(f, CallCandidates[2])
         /\ MatchesCandidate(g, CallCandidates[Len(CallCandidates)])
         /\ ~f.enabled
         /\ g.enabled
    /\ ~access.result.has_access

\* the candidates of the call whose lookup did not fail and that have a flag
\* of their own scope and role in the store
RemainingWithFlag ==
    {i \in 1..Len(CallCandidates) :
        /\ i \notin access.failed
        /\ \E f \in flags : MatchesCandidate(f, CallCandidates[i])}

\* the decision of the first of them, the default denial if there is none
FirstRemainingDecision ==
    IF RemainingWithFlag = {}
    THEN {NoFlagDecision(access.feature_key, access.scope_type)}
    ELSE LET i == CHOOSE j \in RemainingWithFlag : \A k \in RemainingWithFlag : j <= k
         IN  {FlagDecision(f, CallCandidates[i], access.feature_key) :
                 f \in {g \in flags : MatchesCandidate(g, CallCandidates[i])}}

\* C13: when the lookup of a candidate fails, check_feature_access still
\* returns, after the other lookups have completed, and its decision is the
\* one of the first candidate, in order, that did not fail and has a flag
\* (the default denial if there is none)
C13_FailedLookupSkipped ==
    (access # NoCall /\ access.pc = "returned" /\ access.failed # {})
    => access.result \in FirstRemainingDecision

(***************************************************************************)
(* Role of the deciding flag                                               *)
(***************************************************************************)
\* the rows of the running environment and of the feature asked that carry
\* the caller's role or no role
RoleAppropriateFlags ==
    {f \in flags : /\ f.feature_key = access.feature_key
                   /\ f.environment = environment
                   /\ f.role \in {Null, access.user_role}}

\* C14: a decision taken from a flag is the decision of a flag whose role is
\* the caller's role or null, at one of the candidates of the call; a flag of
\* another role neither grants nor denies
C14_RoleAppropriate ==
    (/\ access.called
     /\ ~Bypassed
     /\ access.result # NoFlagDecision(access.feature_key, access.scope_type))
    => \E f \in RoleAppropriateFlags, i \in 1..Len(CallCandidates) :
          /\ f.scope_type = CallCandidates[i][1]
          /\ f.scope_id = CallCandidates[i][2]
          /\ access.result = FlagDecision(f, CallCandidates[i], access.feature_key)

(***************************************************************************)
(* The games a user may see (feature_flags.py:237-288)                     *)
(***************************************************************************)
\* the game_access rows an administrator may put in the store
GameAccessUniverse ==
    {Flag(s[1], s[2], "game_access", r, env, e, NoneMeta) :
        s \in {<<"global", Null>>, <<"game", "g1">>, <<"game", "g2">>, <<"user", "u1">>},
        r \in FlagRoles, env \in Environments, e \in BOOLEAN}

\* an administrator adds a game_access row
AddGameAccessFlag ==
    /\ access = NoCall
    /\ Cardinality(flags) < MaxFlags
    /\ \E f \in GameAccessUniverse :
         /\ \A g \in flags : FlagKey(g) # FlagKey(f)
         /\ flags' = flags \cup {f}
    /\ UNCHANGED <<environment, access>>
    /\ UNCHANGED outsideAccess

\* one call of get_user_accessible_games; read_failed tells whether the read
\* of the games table fails
GetUserAccessibleGames ==
    /\ access = NoCall
    /\ \E user_role \in CallerRoles, read_failed \in BOOLEAN :
         access' = [called |-> TRUE, op |-> "get_user_accessible_games",
                    user_id |-> "u1", user_role |-> user_role,
                    read_failed |-> read_failed,
                    result |-> get_user_accessible_games(flags, environment, GamesTable,
                                                         user_role, read_failed)]
    /\ UNCHANGED <<environment, flags>>
    /\ UNCHANGED outsideAccess

check_game_access(store, env, user_id, user_role, game_id) ==
    check_feature_access(store, env, user_id, user_role, "game_access", "game", game_id, {})

\* one call of check_game_access
CheckGameAccess ==
    /\ access = NoCall
    /\ \E user_role \in CallerRoles, game_id \in GamesTable :
         \E r \in check_game_access(flags, environment, "u1", user_role, game_id) :
            access' = [called |-> TRUE, op |-> "check_game_access",
                       user_id |-> "u1", user_role |-> user_role,
                       game_id |-> game_id, read_failed |-> FALSE, granted |-> r]
    /\ UNCHANGED <<environment, flags>>
    /\ UNCHANGED outsideAccess

InitGames ==
    /\ environment \in Environments
    /\ flags = {}
    /\ access = NoCall
    /\ query = [pc |-> "idle"]
    /\ now = 0
    /\ events = EmptyBag
    /\ ledger = NoCall
    /\ sessions = <<>>
    /\ session_call = NoCall
    /\ documents = {}
    /\ locator = NoCall
    /\ messages = <<>>
    /\ chat = NoChat

NextGames ==
    AddGameAccessFlag \/ RemoveFlag \/ GetUserAccessibleGames \/ CheckGameAccess
        \/ ReturnAccess

SpecGames == InitGames /\ [][NextGames]_vars

\* the enabled game_access rows of the running environment at a scope type
\* that apply to the caller: of the caller's role, or of no role
EnabledGameAccess(scope_type) ==
    {f \in flags : /\ f.feature_key = "game_access"
                   /\ f.environment = environment
                   /\ f.scope_type = scope_type
                   /\ f.role \in {Null, access.user_role}
                   /\ f.enabled}

\* C15: for a user outside the admin/developer-in-dev bypass, when the games
\* table can be read, get_user_accessible_games returns every game id if an
\* enabled global game_access flag applying to the user exists, and otherwise
\* exactly the game ids of the enabled game-scoped game_access flags applying
\* to the user (of the user's role, or role-agnostic)
C15_AccessibleGames ==
    (/\ access.called
     /\ access.op = "get_user_accessible_games"
     /\ ~(access.user_role \in {"admin", "developer"} /\ is_development(environment))
     /\ ~access.read_failed)
    => access.result = IF EnabledGameAccess("global") # {}
                       THEN GamesTable
                       ELSE {f.scope_id : f \in EnabledGameAccess("game")}

(***************************************************************************)
(* The daily cap over the requests of a day                                *)
(***************************************************************************)
\* the chat_question events recorded today for a user by this deployment,
\* over all games
QuestionsToday(user_id) ==
    LET rows == {e \in BagToSet(events) :
                    /\ e.user_id = user_id
                    /\ e.event_type = "chat_question"
                    /\ e.environment = environment
                    /\ e.timestamp \div TicksPerDay = now \div TicksPerDay}
    IN  BagCardinality([e \in rows |-> events[e]])

\* C16: for a user whose chat access comes from one flag carrying
\* daily_limit = L, after any sequence of chat requests served one after the
\* other within one UTC day, over all games, at most L chat_question events
\* are recorded for the user
C16_DailyCapPerUser ==
    \A f \in flags :
        (f.feature_key = "chat" /\ "daily_limit" \in f.metadata.keys)
        => QuestionsToday("u1") <= f.metadata.daily_limit

(***************************************************************************)
(* The history page of a session (chat_sessions.py:99-235)                 *)
(***************************************************************************)
MaxMessages == 3

\* the largest page asked for
MaxPage == 2

MessageSenders == {"user", "assistant"}

MessageContents == {"a", "b"}

\* the sessions whose messages are followed
HistorySessions ==
    <<NewSession("u1", "g1", "es", 0), NewSession("u2", "g1", "es", 0)>>

outsideHistory ==
    <<environment, flags, access, query, events, ledger, documents, locator, chat>>

\* one call of add_message; a failed call inserts nothing
AddMessage ==
    /\ session_call = NoCall
    /\ Len(messages) < MaxMessages
    /\ \E session_id \in DOMAIN sessions, sender \in MessageSenders,
          content \in MessageContents, failed \in BOOLEAN :
         messages' = add_message(messages, now, session_id, sender, content, failed)
    /\ UNCHANGED <<now, sessions, session_call>>
    /\ UNCHANGED outsideHistory

\* one call of get_session_history
GetSessionHistory ==
    /\ session_call = NoCall
    /\ \E session_id \in DOMAIN sessions, limit \in 1..MaxPage, failed \in BOOLEAN :
         session_call' = [called |-> TRUE, op |-> "get_session_history",
                          session_id |-> session_id, limit |-> limit, failed |-> failed,
                          result |-> get_session_history(messages, session_id, limit, failed)]
    /\ UNCHANGED <<now, sessions, messages>>
    /\ UNCHANGED outsideHistory

InitHistory ==
    /\ sessions = HistorySessions
    /\ messages = <<>>
    /\ session_call = NoCall
    /\ now = 0
    /\ environment = "prod"
    /\ flags = {}
    /\ access = NoCall
    /\ query = [pc |-> "idle"]
    /\ events = EmptyBag
    /\ ledger = NoCall
    /\ documents = {}
    /\ locator = NoCall
    /\ chat = NoChat

NextHistory == Tick \/ AddMessage \/ GetSessionHistory \/ ReturnSession

SpecHistory == InitHistory /\ [][NextHistory]_vars

\* the messages of the session of the call, oldest first
SessionMessages ==
    SelectSeq(messages, LAMBDA m : m.session_id = session_call.session_id)

\* the last n elements of a sequence, all of them when it is shorter
LastOf(s, n) == IF Len(s) <= n THEN s ELSE SubSeq(s, Len(s) - n + 1, Len(s))

\* C17: when the read succeeds, get_session_history(session_id, limit)
\* returns the last `limit` messages of the session, oldest first: for a
\* session holding more, the oldest are left out and the newest is included
C17_LastMessages ==
    (session_call # NoCall /\ ~session_call.failed)
    => session_call.result = LastOf(SessionMessages, session_call.limit)

(***************************************************************************)
(* Session ids of other users and of sessions no longer active             *)
(***************************************************************************)
\* the step is a get_or_create_session call whose session id is the id of a
\* session of another user, or of a session closed or archived
ForeignStep ==
    /\ GetOrCreateSession
    /\ session_call'.session_id \in DOMAIN sessions
    /\ ~ValidSessionId(sessions, session_call'.session_id, session_call'.user_id)

C19_RaisesOnlyIfBothStagesFailed ==
    query.pc = "raised"
    => (query.file_search_error # Null /\ query.google_search_error # Null)

\* the stage calls issued so far
CallsIssued == {query.calls[i] : i \in DOMAIN query.calls}

\* C20: the synthesis call is issued only after the file_search stage and
\* the google_search stage have both ended, done or failed, and a failure
\* (a timeout as any other exception) of stage 1 does not keep stage 2 from
\* being run
C20_SynthesisAfterBothStages ==
    query.pc # "idle" =>
        /\ (query.pc = "synthesis" \/ "synthesis" \in CallsIssued)
           => (/\ Len(query.calls) >= 2
               /\ query.calls[1] = "file_search"
               /\ query.calls[2] = "google_search"
               /\ \A i \in DOMAIN query.calls : query.calls[i] = "synthesis" => i = 3)
        /\ (query.file_search_error # Null /\ query.pc \in {"combine", "returned", "raised"})
           => "google_search" \in CallsIssued

\* a query has returned after the three calls, the synthesis being the last
C20_Witness ==
    /\ query.pc = "returned"
    /\ query.calls = <<"file_search", "google_search", "synthesis">>
    /\ query.file_search_error = Null
    /\ query.google_search_error = Null

(***************************************************************************)
(* The fallback of a failed synthesis                                      *)
(***************************************************************************)
\* the answer a stage's text gives: the text without the surrounding
\* whitespace, nothing when only whitespace is left
StageAnswer(t) == Strip(t)

\* C21: when both grounded stages succeeded and the synthesis call fails,
\* query_gemini returns; the answer is the document-grounded answer when that
\* is not empty, otherwise the web-grounded answer when that is not empty,
\* otherwise the sentinel (answers taken without surrounding whitespace), and
\* model_info.errors has a synthesis entry
C21_SynthesisFallback ==
    (query.pc \in {"returned", "raised"} /\ query.synthesis_error # Null)
    => /\ query.pc = "returned"
       /\ query.result.answer =
            IF StageAnswer(query.answer_text_fs) # "" THEN StageAnswer(query.answer_text_fs)
            ELSE IF StageAnswer(query.answer_text_gs) # ""
                 THEN StageAnswer(query.answer_text_gs)
                 ELSE Sentinel
       /\ "synthesis" \in DOMAIN query.result.model_info.errors

(***************************************************************************)
(* What the response tells about absorbed failures                         *)
(***************************************************************************)
\* C22: when a chat request is answered although a grounded stage or the
\* synthesis failed, the model_info of the response has an errors map with
\* an entry for each failed stage
C22_ResponseCarriesErrors ==
    (chat.pc = "done" /\ chat.answered /\ chat.stages_failed # {})
    => /\ "errors" \in DOMAIN chat.response.model_info
       /\ chat.stages_failed \subseteq DOMAIN chat.response.model_info.errors

(***************************************************************************)
(* Order of the steps of a chat request                                    *)
(***************************************************************************)
\* the position of a step in the route; 0 when no request is in progress
ChatRank(pc) ==
    CASE pc = "game_gate" -> 1
      [] pc = "chat_access" -> 2
      [] pc = "quota" -> 3
      [] pc = "session" -> 4
      [] pc = "store" -> 5
      [] pc = "history" -> 6
      [] pc = "query" -> 7
      [] pc = "store_user" -> 8
      [] pc = "store_assistant" -> 9
      [] pc = "stats" -> 10
      [] pc = "analytics" -> 11
      [] pc = "respond" -> 12
      [] OTHER -> 0

\* a step that ends the request with status 403
Forbidden ==
    /\ chat.pc # "done"
    /\ chat'.pc = "done"
    /\ chat'.response.status = 403

\* C23: the steps of a chat request are taken in the order access check,
\* quota check, session get-or-create, store resolution, query, persistence,
\* analytics; nothing before the session step writes a session, a message or
\* a usage event or calls the AI provider, and a request is rejected as
\* forbidden (access denied, quota exceeded) only at the access check or at
\* the quota check, so without any of these effects
C23_StepOrder ==
    [][/\ chat'.pc # chat.pc =>
             \/ chat'.pc = "done"
             \/ chat'.pc = "game_gate" /\ chat.pc \in {"idle", "done"}
             \/ ChatRank(chat'.pc) = ChatRank(chat.pc) + 1
       /\ ChatRank(chat.pc) < ChatRank("session") =>
             /\ UNCHANGED <<sessions, messages, events>>
             /\ query = IdleQuery /\ query' = IdleQuery
       /\ sessions' # sessions => chat.pc \in {"session", "stats"}
       /\ messages' # messages => chat.pc \in {"store_user", "store_assistant"}
       /\ events' # events => chat.pc = "analytics"
       /\ query' # query => chat.pc = "query"
       /\ Forbidden =>
             /\ chat.pc \in {"chat_access", "quota"}
             /\ chat'.session_id = NoSession
             /\ ~chat'.answered]_vars

\* a request refused for its quota: the event counted is the only one, no
\* message is stored and no session was asked for or created
C23_Witness ==
    /\ chat.pc = "done"
    /\ chat.response.status = 403
    /\ chat.response.detail = "Daily limit reached"
    /\ chat.session_id = NoSession
    /\ BagCardinality(events) = 1
    /\ messages = <<>>
    /\ sessions = <<>>
    /\ query = IdleQuery

(***************************************************************************)
(* The reason given to an admin                                            *)
(***************************************************************************)
\* C24: for role admin the result of check_feature_access has the reason
\* "admin role has full access" and no metadata, in every environment, the
\* development environment included
C24_AdminReason ==
    (access.called /\ access.user_role = "admin")
    => /\ access.result.reason = "admin role has full access"
       /\ access.result.metadata = NoneMeta

(***************************************************************************)
(* When a session is created                                               *)
(***************************************************************************)
\* C25: get_or_create_session creates a session only when no session id is
\* given or no session matches (id, caller, active); when such a session
\* exists, the call creates none and returns it, also when the lookup or the
\* stamp of last_activity_at fails
C25_CreatesOnlyOnMiss ==
    [][GetOrCreateSession =>
          LET c == session_call'
              hit == ValidSessionId(sessions, c.session_id, c.user_id)
          IN  /\ Len(sessions') > Len(sessions) => ~hit
              /\ (hit /\ c.fault \in {"none", "lookup", "stamp"}) =>
                    /\ c.returned = c.session_id
                    /\ Len(sessions') = Len(sessions)]_vars

(***************************************************************************)
(* The two ways to decide whether a game is accessible                     *)
(***************************************************************************)
\* the games get_user_accessible_games gives for the caller over the store
\* as it is, the games table being readable
ListedGames ==
    get_user_accessible_games(flags, environment, GamesTable, access.user_role, FALSE)

\* C26: for a user outside the bypass and every game g, g is in
\* get_user_accessible_games(user, role) if and only if
\* check_game_access(user, role, g) grants access
C26_AccessPathsAgree ==
    (/\ access.called
     /\ ~Bypassed
     /\ ~access.read_failed)
    => /\ access.op = "check_game_access"
          => (access.granted.has_access <=> access.game_id \in ListedGames)
       /\ access.op = "get_user_accessible_games"
          => \A g \in GamesTable :
                \A a \in check_game_access(flags, environment, access.user_id,
                                           access.user_role, g) :
                   a.has_access <=> g \in access.result

(***************************************************************************)
(* Failure of the usage-count read                                         *)
(***************************************************************************)
\* the rows a working read would have counted for the call in progress
RecordedToday ==
    get_daily_usage_count(events, environment, now, ledger.user_id, ledger.event_type,
                          ledger.game_id, FALSE)

C29_SessionOfRequestGame ==
    (chat.pc \notin {"none", "idle"} /\ chat.session_id # NoSession)
    => /\ sessions[chat.session_id].game_id = chat.game_id
       /\ sessions[chat.session_id].language = chat.language

(***************************************************************************)
(* Concurrent chat requests of one user for one game (genai.py:150-307):   *)
(* the requests are coroutines of one event loop, each runs from one await *)
(* to the next, and no lock or transaction spans the quota check and the   *)
(* analytics event.  Here chat maps each request to its locals.  The store *)
(* works: reads succeed, so every count is the exact one.                  *)
(***************************************************************************)
MaxConcurrent == 2

ConcurrentRequests == 1..MaxConcurrent

\* the locals of a request not yet started
WaitingRequest == [pc |-> "waiting", metadata |-> NoneMeta, answered |-> FALSE]

\* step 2 of a request: chat access, which carries the flag's metadata
ConcurrentChatAccess ==
    /\ \E r \in ConcurrentRequests :
         /\ chat[r].pc = "waiting"
         /\ \E a \in check_chat_access(flags, environment, "u1", "basic", "g1") :
              chat' = [chat EXCEPT ![r].pc = IF a.has_access
                                             THEN AfterChatAccess(a.metadata)
                                             ELSE "rejected",
                                   ![r].metadata = a.metadata]
    /\ UNCHANGED events
    /\ UNCHANGED <<query, sessions, messages>>
    /\ UNCHANGED outsideChat

\* step 3 of a request: the count of the day is read and compared
ConcurrentQuota ==
    /\ \E r \in ConcurrentRequests :
         /\ chat[r].pc = "quota"
         /\ LET daily_limit == chat[r].metadata.daily_limit
                limit_check == check_daily_limit(events, environment, now, "u1",
                                   "chat_question", daily_limit, "g1", FALSE)
            IN  chat' = [chat EXCEPT ![r].pc =
                            IF "daily_limit" \notin chat[r].metadata.keys THEN "session"
                            ELSE IF ~limit_check.has_quota THEN "rejected"
                            ELSE "session"]
    /\ UNCHANGED events
    /\ UNCHANGED <<query, sessions, messages>>
    /\ UNCHANGED outsideChat

\* steps 4 to 10 of a request: session, store, history, query, messages and
\* statistics; the request is answered, or ends with an error response
ConcurrentAnswer ==
    /\ \E r \in ConcurrentRequests :
         /\ chat[r].pc = "session"
         /\ \E answered \in BOOLEAN :
              chat' = [chat EXCEPT ![r].pc = IF answered THEN "analytics" ELSE "rejected",
                                   ![r].answered = answered]
    /\ UNCHANGED events
    /\ UNCHANGED <<query, sessions, messages>>
    /\ UNCHANGED outsideChat

\* steps 11 and 12 of a request: the two analytics events, then the response
ConcurrentAnalytics ==
    /\ \E r \in ConcurrentRequests :
         /\ chat[r].pc = "analytics"
         /\ \E first \in LogOutcomes, second \in LogOutcomes :
              LET asked == Logged(events, environment, now, "u1", "chat_question", "g1", first)
                  answered == Logged(asked, environment, now, "u1", "chat_answer", "g1", second)
              IN  events' = IF first = "client_failed" THEN events ELSE answered
         /\ chat' = [chat EXCEPT ![r].pc = "responded"]
    /\ UNCHANGED <<query, sessions, messages>>
    /\ UNCHANGED outsideChat

\* chat granted to the basic role by one flag carrying a daily limit; no
\* event recorded yet
InitConcurrent ==
    /\ environment = "prod"
    /\ flags \in {{Flag("global", Null, "chat", "basic", "prod", TRUE, LimitMeta(L))} :
                     L \in 1..MaxLimit}
    /\ events = EmptyBag
    /\ chat = [r \in ConcurrentRequests |-> WaitingRequest]
    /\ documents = ChatDocuments
    /\ sessions = <<>>
    /\ messages = <<>>
    /\ query = IdleQuery
    /\ now = 0
    /\ access = NoCall
    /\ ledger = NoCall
    /\ session_call = NoCall
    /\ locator = NoCall

NextConcurrent ==
    ConcurrentChatAccess \/ ConcurrentQuota \/ ConcurrentAnswer \/ ConcurrentAnalytics

SpecConcurrent == InitConcurrent /\ [][NextConcurrent]_vars

\* the requests that passed the quota check and were answered
AnsweredRequests == {r \in ConcurrentRequests : chat[r].answered}

\* C27: under any interleaving of concurrent chat requests of one user for
\* one game within one UTC day, with chat granted by a flag carrying
\* daily_limit = L, neither the number of requests answered nor the number of
\* chat_question events recorded for the user and the game exceeds L
C27_CapUnderConcurrency ==
    \A f \in flags :
        (f.feature_key = "chat" /\ "daily_limit" \in f.metadata.keys)
        => /\ Cardinality(AnsweredRequests) <= f.metadata.daily_limit
           /\ get_daily_usage_count(events, environment, now, "u1", "chat_question",
                                    "g1", FALSE) <= f.metadata.daily_limit

(***************************************************************************)
(* Concurrent update_session_stats calls on one session                    *)
(* (chat_sessions.py:144-197): the read of the counters and the write of   *)
(* the incremented totals are two awaits, and calls of concurrent requests *)
(* interleave between them.  Here session_call maps each call to its       *)
(* locals.                                                                 *)
(***************************************************************************)
MaxUpdaters == 2

Updaters == 1..MaxUpdaters

\* the increments the callers pass: the route passes 2 messages and the
\* token estimate of the answer
MessageIncrements == {1, 2}

TokenIncrements == {0, 3}

\* a call not yet made
IdleUpdate ==
    [pc |-> "idle", message_count_increment |-> 0, token_estimate_increment |-> 0,
     current_messages |-> 0, current_tokens |-> 0, failed |-> FALSE]

\* update_session_stats is called for the session
CallUpdateStats ==
    /\ \E u \in Updaters :
         /\ session_call[u].pc = "idle"
         /\ \E m \in MessageIncrements, k \in TokenIncrements :
              session_call' = [session_call EXCEPT
                                  ![u].pc = "read",
                                  ![u].message_count_increment = m,
                                  ![u].token_estimate_increment = k]
    /\ UNCHANGED <<sessions, now>>
    /\ UNCHANGED outsideSession

\* the current counters are fetched; a failed read ends the call
ReadStats ==
    /\ \E u \in Updaters :
         /\ session_call[u].pc = "read"
         /\ \E failed \in BOOLEAN :
              session_call' =
                 IF failed \/ 1 \notin DOMAIN sessions
                 THEN [session_call EXCEPT ![u].pc = "done", ![u].failed = TRUE]
                 ELSE [session_call EXCEPT
                          ![u].pc = "write",
                          ![u].current_messages = sessions[1].total_messages,
                          ![u].current_tokens = sessions[1].total_token_estimate]
    /\ UNCHANGED <<sessions, now>>
    /\ UNCHANGED outsideSession

\* the totals computed from the counters read are written back
WriteStats ==
    /\ \E u \in Updaters :
         /\ session_call[u].pc = "write"
         /\ \E failed \in BOOLEAN :
              /\ sessions' =
                    IF failed THEN sessions
                    ELSE [sessions EXCEPT
                            ![1].total_messages =
                                session_call[u].current_messages
                                    + session_call[u].message_count_increment,
                            ![1].total_token_estimate =
                                session_call[u].current_tokens
                                    + session_call[u].token_estimate_increment,
                            ![1].last_activity_at = now]
              /\ session_call' = [session_call EXCEPT ![u].pc = "done",
                                                      ![u].failed = failed]
    /\ UNCHANGED now
    /\ UNCHANGED outsideSession

\* one active session with its counters at 0
InitStats ==
    /\ sessions = <<NewSession("u1", "g1", "es", 0)>>
    /\ session_call = [u \in Updaters |-> IdleUpdate]
    /\ now = 0
    /\ environment = "prod"
    /\ flags = {}
    /\ access = NoCall
    /\ query = [pc |-> "idle"]
    /\ events = EmptyBag
    /\ ledger = NoCall
    /\ documents = {}
    /\ locator = NoCall
    /\ messages = <<>>
    /\ chat = NoChat

NextStats == CallUpdateStats \/ ReadStats \/ WriteStats

SpecStats == InitStats /\ [][NextStats]_vars

\* the sum of one field of the calls
RECURSIVE SumOfCalls(_, _)
SumOfCalls(field, S) ==
    IF S = {} THEN 0
    ELSE LET u == CHOOSE x \in S : TRUE
         IN  session_call[u][field] + SumOfCalls(field, S \ {u})

\* C28: after any interleaving of update_session_stats calls on one session
\* that all complete without a store failure, total_messages is its initial
\* value plus the sum of the message increments and total_token_estimate its
\* initial value plus the sum of the token increments
C28_NoLostIncrement ==
    (\A u \in Updaters : session_call[u].pc = "done" /\ ~session_call[u].failed)
    => /\ sessions[1].total_messages = SumOfCalls("message_count_increment", Updaters)
       /\ sessions[1].total_token_estimate
             = SumOfCalls("token_estimate_increment", Updaters)

====
